---- MODULE Spec2Model ----
(***************************************************************************)
(* A model of the retrieval orchestrator RAGManager (src/lib/rag/index.ts) *)
(* together with the parts of the loader, the chunker and the retriever   *)
(* that its lifecycle depends on.                                          *)
(*                                                                         *)
(* JavaScript runs one synchronous segment at a time; an async method is   *)
(* interrupted only at an `await`.  Every action below is one such         *)
(* segment: the code from a call (or from the resumption of an await) up   *)
(* to the next await or to the return.  The callers are independent        *)
(* promise chains (request handlers) that share the singleton manager.     *)
(***************************************************************************)
EXTENDS Integers, Sequences, FiniteSets, TLC

(* ---------------------------------------------------------------------- *)
(* Bounds of the model                                                     *)
(* ---------------------------------------------------------------------- *)

\* number of concurrent promise chains that use the manager
NumCallers == 2

\* cap on the total number of loadDocuments invocations in one behaviour
MaxLoads == 2

Callers == 1..NumCallers

(* ---------------------------------------------------------------------- *)
(* Program constants                                                       *)
(* ---------------------------------------------------------------------- *)

\* SemanticChunker defaults (chunkDocuments is called without a config)
chunkSize == 1000
overlapSize == 200

\* DocumentRetriever configuration used by RAGManager.initialize
topK == 5
minChunkLength == 50

\* `null` of the retriever field
Null == [present |-> FALSE, chunks |-> <<>>]

\* a caller that awaits no loadDocuments promise
NoLoad == 0

(* ---------------------------------------------------------------------- *)
(* Documents.  A document is named by its id; its text is represented by   *)
(* the lengths of its trimmed, non-empty paragraphs (the only thing the    *)
(* chunker's control flow and the retriever's length filter depend on).    *)
(* ---------------------------------------------------------------------- *)

\* the two documents of PDFLoader.getMockDocuments, with the paragraph
\* lengths of their literal texts
MockDocuments == <<"doc_hr_policy_hebrew", "doc_hr_policy_english">>

\* documents that files of the documents directory can extract to:
\* "doc_a" is an ordinary text of two paragraphs, "doc_tiny" is a TXT file
\* whose trimmed text has 50 characters or more, nearly all of them blank
\* lines between two one-letter paragraphs
DiskDocs == {"doc_a", "doc_tiny"}

\* contents of the documents directory that a load can find
Directories == {{}, {"doc_a"}, {"doc_tiny"}}

DocIds == DiskDocs \cup {MockDocuments[i] : i \in 1..Len(MockDocuments)}

Paragraphs(d) ==
    CASE d = "doc_hr_policy_hebrew"  -> <<41, 132, 161, 153, 110, 154>>
      [] d = "doc_hr_policy_english" -> <<55, 163, 204, 211, 148, 220>>
      [] d = "doc_a"                 -> <<700, 900>>
      [] d = "doc_tiny"              -> <<1, 1>>

Min(a, b) == IF a < b THEN a ELSE b

(* ---------------------------------------------------------------------- *)
(* PDFLoader.loadPDFs: the files found are extracted in directory order;   *)
(* when none yields a document the mock documents are returned, so the     *)
(* result is never empty.                                                  *)
(* ---------------------------------------------------------------------- *)

RECURSIVE SeqOfSet(_)
SeqOfSet(S) ==
    IF S = {} THEN <<>>
    ELSE LET d == CHOOSE x \in S : \A y \in S : (x = "doc_a") \/ (y # "doc_a")
         IN  <<d>> \o SeqOfSet(S \ {d})

loadPDFs(files) ==
    IF files = {} THEN MockDocuments ELSE SeqOfSet(files)

(* ---------------------------------------------------------------------- *)
(* SemanticChunker.chunkDocument on paragraph lengths                      *)
(* ---------------------------------------------------------------------- *)

Chunk(d, idx, len) ==
    [documentId |-> d, chunkIndex |-> idx, len |-> len]

\* the loop of chunkDocument: cur is currentChunkContent.length
RECURSIVE chunkLoop(_, _, _, _, _, _)
chunkLoop(d, paras, i, cur, idx, acc) ==
    IF i > Len(paras)
    THEN IF cur > 0 THEN Append(acc, Chunk(d, idx, cur)) ELSE acc
    ELSE LET p == paras[i] IN
         IF cur > 0 /\ cur + p > chunkSize
         THEN chunkLoop(d, paras, i + 1, Min(cur, overlapSize) + 2 + p,
                        idx + 1, Append(acc, Chunk(d, idx, cur)))
         ELSE chunkLoop(d, paras, i + 1,
                        cur + (IF cur > 0 THEN 2 ELSE 0) + p, idx, acc)

chunkDocument(d) == chunkLoop(d, Paragraphs(d), 1, 0, 0, <<>>)

RECURSIVE chunkDocuments(_)
chunkDocuments(docs) ==
    IF docs = <<>> THEN <<>>
    ELSE chunkDocument(Head(docs)) \o chunkDocuments(Tail(docs))

(* ---------------------------------------------------------------------- *)
(* DocumentRetriever                                                       *)
(* ---------------------------------------------------------------------- *)

RECURSIVE FilterLen(_)
FilterLen(cs) ==
    IF cs = <<>> THEN <<>>
    ELSE (IF Head(cs).len >= minChunkLength THEN <<Head(cs)>> ELSE <<>>)
         \o FilterLen(Tail(cs))

\* createRetriever: a new retriever that retains the chunks long enough
createRetriever(cs) == [present |-> TRUE, chunks |-> FilterLen(cs)]

\* The query of the model is a phrase that occurs in the text of every
\* document, so every retained chunk is an exact-substring match with the
\* maximal score and the stable sort keeps chunk order.  The optional
\* userQuery of getEnhancedSystemPrompt may also be absent ("", falsy).
Queries == {"hours"}
UserQueries == {""} \cup Queries

Prefix(s, n) == SubSeq(s, 1, Min(n, Len(s)))

retrieverSearch(r, q) ==
    IF q = "" THEN <<>> ELSE Prefix(r.chunks, topK)

DocsOf(cs) == {cs[i].documentId : i \in 1..Len(cs)}

(* ---------------------------------------------------------------------- *)
(* Text.  A string is a sequence of one-character strings, so that         *)
(* length, slicing, trimming, searching and splitting act on characters    *)
(* as the JavaScript string methods do.                                    *)
(* ---------------------------------------------------------------------- *)

\* characters that String.prototype.trim removes and \s matches
Whitespace == {" ", "\n", "\t"}

\* the punctuation of the tokenizer's separator class
Punctuation == {"-", ".", ",", ";", ":", "!", "?", "(", ")", "[", "]",
                "{", "}", "'", "\""}

Separators == Whitespace \cup Punctuation

LowerLetters == <<"a", "b", "c", "d", "e", "f", "g", "h", "i", "j", "k",
                  "l", "m", "n", "o", "p", "q", "r", "s", "t", "u", "v",
                  "w", "x", "y", "z">>
UpperLetters == <<"A", "B", "C", "D", "E", "F", "G", "H", "I", "J", "K",
                  "L", "M", "N", "O", "P", "Q", "R", "S", "T", "U", "V",
                  "W", "X", "Y", "Z">>
Digits == {"0", "1", "2", "3", "4", "5", "6", "7", "8", "9"}

Range(f) == {f[i] : i \in DOMAIN f}

\* the class [A-Za-z0-9] of the tokenizer's filter (the texts of the model
\* hold no Hebrew letter)
Alphanumeric == Range(LowerLetters) \cup Range(UpperLetters) \cup Digits

toLowerCaseChar(ch) ==
    IF ch \in Range(UpperLetters)
    THEN LowerLetters[CHOOSE i \in DOMAIN UpperLetters : UpperLetters[i] = ch]
    ELSE ch

\* a sequence given by a rule, as a list of its entries
List(f) == SubSeq(f, 1, Len(f))

toLowerCase(t) == List([i \in 1..Len(t) |-> toLowerCaseChar(t[i])])

\* the least and the greatest member of a non-empty set of integers
Least(S) == CHOOSE i \in S : \A j \in S : i <= j
Greatest(S) == 0 - Least({0 - i : i \in S})

\* String.prototype.trim
trim(t) ==
    LET solid == {i \in 1..Len(t) : t[i] \notin Whitespace}
    IN  IF solid = {} THEN <<>> ELSE SubSeq(t, Least(solid), Greatest(solid))

\* the 1-based positions at which pat occurs in t
Occurrences(t, pat) ==
    {i \in 1..(Len(t) - Len(pat) + 1) : SubSeq(t, i, i + Len(pat) - 1) = pat}

\* String.prototype.indexOf with 0-based positions, -1 if pat is not in t
indexOf(t, pat) ==
    LET hits == Occurrences(t, pat)
    IN  IF hits = {} THEN -1 ELSE Least(hits) - 1

\* String.prototype.includes
includes(t, pat) == Occurrences(t, pat) # {}

\* slice(0, k) of a list, for any integer k
SliceTo(s, k) ==
    IF k >= 0 THEN SubSeq(s, 1, Min(k, Len(s)))
    ELSE SubSeq(s, 1, Len(s) + k)

\* the members of a set of integers in ascending order
Ascending(S) ==
    List([n \in 1..Cardinality(S) |->
            CHOOSE i \in S : Cardinality({j \in S : j < i}) = n - 1])

\* the entries of s in order, each kept at its first occurrence
\* (Array.from(new Set(s)))
Unique(s) ==
    LET first == Ascending({i \in 1..Len(s) :
                              \A j \in 1..(i - 1) : s[j] # s[i]})
    IN  List([n \in 1..Len(first) |-> s[first[n]]])

\* Array.prototype.sort((a, b) => key(b) - key(a)): descending by key,
\* entries of equal key in their previous order (the sort is stable);
\* keys[i] is the key of s[i]
SortDescending(s, keys) ==
    LET rank(i) == Cardinality({j \in 1..Len(s) :
                        \/ keys[j] > keys[i]
                        \/ keys[j] = keys[i] /\ j < i}) + 1
    IN  List([n \in 1..Len(s) |-> s[CHOOSE i \in 1..Len(s) : rank(i) = n]])

(* ---------------------------------------------------------------------- *)
(* DocumentRetriever in detail (pdf-loader.ts 436-740): the index over     *)
(* the chunk texts and the scoring of a query.  A score is a fixed-point   *)
(* number in units of 1/Scale; the score 10.0 of the code is 10 * Scale.   *)
(* Quotients are rounded down to the unit, so a score of the model is      *)
(* within a few units of the floating-point score of the code.             *)
(* ---------------------------------------------------------------------- *)

Scale == 100 * 100

\* A relevanceScore is the score divided by 10: it is kept in units of
\* 1/(10 * Scale), in which the division changes no digit and 1.0 is
One == 10 * Scale

\* Math.log of the natural numbers from 1 on, in units of 1/Scale
LnNat == <<0, 6931, 10986, 13863, 16094, 17918, 19459, 20794>>

\* Math.log((n + 1) / d): a smoothed inverse document frequency
Ln_Smoothed(n, d) == LnNat[n + 1] - LnNat[d]

\* Math.log(n / d)
Ln(n, d) == LnNat[n] - LnNat[d]

\* the defaults of the constructor: `config?.x || default`
DefaultTopK == 5
DefaultRelevanceThreshold == (15 * Scale) \div 100
DefaultMinChunkLength == 50

\* a || b on numbers: 0 is falsy
OrElse(a, b) == IF a = 0 THEN b ELSE a

\* tokenize: lower-case, split on runs of separators, keep the pieces of
\* two or more characters with an alphanumeric one, drop repetitions,
\* longest first
tokenize(text) ==
    LET t == toLowerCase(text)
        starts == {i \in 1..Len(t) :
                     t[i] \notin Separators
                     /\ (i = 1 \/ t[i - 1] \in Separators)}
        endOf(i) == CHOOSE j \in i..Len(t) :
                       /\ \A k \in i..j : t[k] \notin Separators
                       /\ (j = Len(t) \/ t[j + 1] \in Separators)
        order == Ascending(starts)
        pieces == List([n \in 1..Len(order) |->
                          SubSeq(t, order[n], endOf(order[n]))])
        keep(term) == /\ Len(term) >= 2
                      /\ \E i \in 1..Len(term) : term[i] \in Alphanumeric
        terms == Unique(SelectSeq(pieces, keep))
    IN  SortDescending(terms, List([i \in 1..Len(terms) |-> Len(terms[i])]))

\* new DocumentRetriever(config)
DocumentRetriever(config) ==
    [topK               |-> OrElse(config.topK, DefaultTopK),
     relevanceThreshold |-> OrElse(config.relevanceThreshold,
                                   DefaultRelevanceThreshold),
     minChunkLength     |-> OrElse(config.minChunkLength,
                                   DefaultMinChunkLength),
     chunks             |-> <<>>,
     termFrequency      |-> <<>>,
     inverseDocumentFrequency |-> <<>>]

\* buildIndex without the two clear() calls at its head: the terms of the
\* earlier build stay in the inverse document frequencies
buildIndex_NoClear(r) ==
    LET n == Len(r.chunks)
        terms == List([i \in 1..n |-> tokenize(r.chunks[i].content)])
        counts(i) == [term \in Range(terms[i]) |->
                        Cardinality({k \in 1..Len(terms[i]) :
                                        terms[i][k] = term})]
        allTerms == UNION {Range(terms[i]) : i \in 1..n}
        holders(term) == {i \in 1..n : term \in Range(terms[i])}
        before == r.inverseDocumentFrequency
    IN  [r EXCEPT
           !.termFrequency = [i \in 1..n |-> counts(i)],
           !.inverseDocumentFrequency =
               [term \in allTerms \cup DOMAIN before |->
                   IF term \in allTerms
                   THEN Ln(n, Cardinality(holders(term)))
                   ELSE before[term]]]

\* buildIndex: per chunk the count of each of its terms, per term the
\* logarithm of (number of chunks / number of chunks that hold the term).
\* termFrequency[i] belongs to the i-th retained chunk (the code keys it
\* by chunk id, and the ids of a corpus are distinct).
buildIndex(r) ==
    LET n == Len(r.chunks)
        terms == List([i \in 1..n |-> tokenize(r.chunks[i].content)])
        counts(i) == [term \in Range(terms[i]) |->
                        Cardinality({k \in 1..Len(terms[i]) :
                                        terms[i][k] = term})]
        allTerms == UNION {Range(terms[i]) : i \in 1..n}
        holders(term) == {i \in 1..n : term \in Range(terms[i])}
    IN  [r EXCEPT
           !.termFrequency = [i \in 1..n |-> counts(i)],
           !.inverseDocumentFrequency =
               [term \in allTerms |-> Ln(n, Cardinality(holders(term)))]]

\* DocumentRetriever.initialize(chunks)
DocumentRetriever_initialize(r, cs) ==
    LET long(c) == Len(c.content) >= r.minChunkLength
    IN  buildIndex([r EXCEPT !.chunks = SelectSeq(cs, long)])

\* createRetriever(chunks, config)
createRetrieverWith(cs, config) ==
    DocumentRetriever_initialize(DocumentRetriever(config), cs)

RECURSIVE CountFrom(_, _, _)
\* the loop of countSubstringOccurrences: `hits` are the positions of the
\* substring, `from` the 1-based position the next indexOf starts at
CountFrom(hits, width, from) ==
    LET ahead == {h \in hits : h >= from}
    IN  IF ahead = {} THEN 0
        ELSE 1 + CountFrom(hits, width, Least(ahead) + width)

\* countSubstringOccurrences: occurrences found left to right, each search
\* resuming after the previous occurrence
countSubstringOccurrences(text, substring) ==
    IF Len(substring) = 0 THEN 0
    ELSE CountFrom(Occurrences(text, substring), Len(substring), 1)

\* calculatePositionBonus(text, term) * 0.5
calculatePositionBonus(text, term) ==
    LET index == indexOf(text, term)
        length == IF Len(text) > 1 THEN Len(text) ELSE 1
    IN  IF index = -1 THEN 0
        ELSE (Scale * (10 * length - 9 * index)) \div (10 * length)

\* containsTerm: the word-boundary regular expression of lines 657-661
\* can only match where the term occurs, so the test is `includes`
containsTerm(text, term) == includes(toLowerCase(text), toLowerCase(term))

\* the sum of the lengths of the retained chunks; getAverageChunkLength is
\* this sum over the number of chunks
totalLength(r) ==
    LET sum[i \in 0..Len(r.chunks)] ==
            IF i = 0 THEN 0 ELSE sum[i - 1] + Len(r.chunks[i].content)
    IN  sum[Len(r.chunks)]

\* the contribution of one query term to scoreChunk, on the i-th chunk.
\* With m = 2 * totalMatches, L the chunk length, n the number of chunks
\*  and T their total length (the average is T / n), k1 = 1.5, b = 0.75:
\*   totalMatches * (k1 + 1)
\*   / (totalMatches + k1 * (1 - b + b * L / (T / n)))
\*   = 10 m T / (4 m T + 3 T + 9 L n)
termScore(r, i, term) ==
    LET chunkLower == toLowerCase(r.chunks[i].content)
        normalized == toLowerCase(term)
        freqs == r.termFrequency[i]
        tf == IF normalized \in DOMAIN freqs THEN freqs[normalized] ELSE 0
        partialMatches == countSubstringOccurrences(chunkLower, normalized)
        m == 2 * tf + partialMatches
        idf == IF normalized \in DOMAIN r.inverseDocumentFrequency
               THEN r.inverseDocumentFrequency[normalized] ELSE 0
        L == Len(chunkLower)
        n == Len(r.chunks)
        T == totalLength(r)
        bm25Score == (idf * 10 * m * T) \div (4 * m * T + 3 * T + 9 * L * n)
    IN  bm25Score + calculatePositionBonus(chunkLower, normalized)

\* scoreChunk(chunk, queryTerms) for the i-th retained chunk
scoreChunk(r, i, queryTerms) ==
    LET sum[k \in 0..Len(queryTerms)] ==
            IF k = 0 THEN 0 ELSE sum[k - 1] + termScore(r, i, queryTerms[k])
    IN  IF sum[Len(queryTerms)] > 0 THEN sum[Len(queryTerms)] ELSE 0

\* the query terms that the i-th retained chunk contains (lines 543-545)
foundTermsOf(r, i, queryTerms) ==
    LET has(term) == containsTerm(r.chunks[i].content, term)
    IN  SelectSeq(queryTerms, has)

\* a hard rejection in the place of the soft penalty: the score is 0 when
\* fewer than half of the query terms are found
withPenalty_Rejects(i, queryTerms, tokenScore, foundTerms) ==
    LET enough == 2 * Len(foundTerms)
                  >= (IF Len(queryTerms) > 1 THEN Len(queryTerms) ELSE 1)
    IN  IF tokenScore > 0 /\ ~enough
        THEN [index |-> i, score |-> 0, matchedTerms |-> <<>>]
        ELSE [index |-> i, score |-> tokenScore,
              matchedTerms |-> IF tokenScore > 0 THEN Unique(foundTerms)
                               ELSE <<>>]

\* the score and matched terms of a chunk scored through its terms: the
\* score is halved when fewer than half of the query terms are found
\* (lines 547-552)
withPenalty(i, queryTerms, tokenScore, foundTerms) ==
    LET enough == 2 * Len(foundTerms)
                  >= (IF Len(queryTerms) > 1 THEN Len(queryTerms) ELSE 1)
    IN  IF tokenScore > 0 /\ ~enough
        THEN [index |-> i, score |-> tokenScore \div 2,
              matchedTerms |-> <<>>]
        ELSE [index |-> i, score |-> tokenScore,
              matchedTerms |-> IF tokenScore > 0 THEN Unique(foundTerms)
                               ELSE <<>>]

\* the else branch of the loop body: the chunk is scored through the
\* query terms
tokenScored(r, i, queryTerms) ==
    withPenalty(i, queryTerms, scoreChunk(r, i, queryTerms),
                foundTermsOf(r, i, queryTerms))

\* the loop body without the exact-substring branch: every chunk is
\* scored through its terms
scored_NoExactMatch(r, i, trimmedQuery) ==
    tokenScored(r, i, tokenize(trimmedQuery))

\* the body of the loop of search for the i-th retained chunk: its score
\* and matched terms
scored(r, i, trimmedQuery) ==
    IF includes(toLowerCase(r.chunks[i].content), toLowerCase(trimmedQuery))
    THEN [index |-> i, score |-> 10 * Scale,
          matchedTerms |-> <<trimmedQuery>>]
    ELSE tokenScored(r, i, tokenize(trimmedQuery))

ScoreOf(e) == e.score

\* scoredChunks.sort((a, b) => b.score - a.score)
sortByScore(kept) ==
    SortDescending(kept, List([i \in 1..Len(kept) |-> ScoreOf(kept[i])]))

\* the array scoredChunks of search after its sort: the retained chunks
\* whose score exceeds the threshold, best first; `index` is the place of
\* the chunk in the retained list
scoredChunks(r, q) ==
    LET all == List([i \in 1..Len(r.chunks) |-> scored(r, i, trim(q))])
        above(e) == e.score > r.relevanceThreshold
    IN  sortByScore(SelectSeq(all, above))

\* scoredChunks.slice(0, topK).map(...): the score divided by 10 and
\* capped at 1.0 (Math.min(1.0, score / 10.0))
searchResults(r, top) ==
    List([n \in 1..Len(top) |->
            [chunk |-> r.chunks[top[n].index],
             relevanceScore |-> Min(One, top[n].score),
             matchedTerms |-> top[n].matchedTerms]])

\* DocumentRetriever.search without the test of the query at its head:
\* an empty query is scored like any other
DocumentRetriever_search_NoQueryTest(r, q) ==
    searchResults(r, SliceTo(scoredChunks(r, q), r.topK))

\* DocumentRetriever.search(query): nothing for an empty query, else the
\* first topK of scoredChunks
DocumentRetriever_search(r, q) ==
    IF Len(trim(q)) = 0 THEN <<>>
    ELSE searchResults(r, SliceTo(scoredChunks(r, q), r.topK))

\* getAverageChunkLength, in units of 1/Scale: 1 for no chunk
getAverageChunkLength(r) ==
    IF Len(r.chunks) = 0 THEN Scale
    ELSE (Scale * totalLength(r)) \div Len(r.chunks)

\* DocumentRetriever.getStats()
DocumentRetriever_getStats(r) ==
    [totalChunks        |-> Len(r.chunks),
     uniqueTerms        |-> Cardinality(DOMAIN r.inverseDocumentFrequency),
     averageChunkLength |-> getAverageChunkLength(r),
     documentCount      |->
         Cardinality({r.chunks[i].documentId : i \in 1..Len(r.chunks)})]

(* ---------------------------------------------------------------------- *)
(* SemanticChunker in detail (chunker.ts 32-178), on the characters of the *)
(* text.                                                                   *)
(* ---------------------------------------------------------------------- *)

\* the characters that end a sentence
SentenceEnd == {".", "!", "?"}

\* new SemanticChunker(config); splitOnSentences is true unless the
\* configuration says false
SemanticChunker(config) ==
    [chunkSize        |-> OrElse(config.chunkSize, chunkSize),
     overlapSize      |-> OrElse(config.overlapSize, overlapSize),
     splitOnSentences |-> config.splitOnSentences]

\* the maximal runs of positions of t outside the set `cut`, in order
RunsOutside(t, cut) ==
    LET kept == (1..Len(t)) \ cut
        starts == {i \in kept : i = 1 \/ (i - 1) \in cut}
        endOf(i) == Least({j \in i..Len(t) : j = Len(t) \/ (j + 1) \in cut})
        order == Ascending(starts)
    IN  List([n \in 1..Len(order) |-> SubSeq(t, order[n], endOf(order[n]))])

NonEmpty(t) == Len(t) > 0

\* text.split(/\n\n+/).map(trim).filter(non-empty): the separators are
\* the runs of two or more newlines
blankLineSplit(text) ==
    LET newline(i) == i \in 1..Len(text) /\ text[i] = "\n"
        cut == {i \in 1..Len(text) :
                  newline(i) /\ (newline(i - 1) \/ newline(i + 1))}
        pieces == RunsOutside(text, cut)
    IN  SelectSeq(List([n \in 1..Len(pieces) |-> trim(pieces[n])]), NonEmpty)

\* text.match(/[^.!?]*[.!?]+/g): each match runs from the end of the
\* previous one to the end of the next run of terminal marks; what
\* follows the last mark belongs to no match
sentenceMatches(text) ==
    LET ends == Ascending({i \in 1..Len(text) :
                    /\ text[i] \in SentenceEnd
                    /\ (i = Len(text) \/ text[i + 1] \notin SentenceEnd)})
    IN  List([n \in 1..Len(ends) |->
                SubSeq(text, IF n = 1 THEN 1 ELSE ends[n - 1] + 1, ends[n])])

RECURSIVE packSentences(_, _, _, _)
\* the loop of splitLongParagraphsOnSentences from the k-th sentence on,
\* with currentChunk as it stands, and the push after the loop
packSentences(r, sentences, k, currentChunk) ==
    IF k > Len(sentences)
    THEN (IF Len(trim(currentChunk)) > 0 THEN <<trim(currentChunk)>> ELSE <<>>)
    ELSE IF /\ Len(currentChunk) > 0
            /\ Len(currentChunk) + Len(sentences[k]) > r.chunkSize
    THEN <<trim(currentChunk)>>
         \o packSentences(r, sentences, k + 1, sentences[k])
    ELSE packSentences(r, sentences, k + 1, currentChunk \o sentences[k])

\* splitLongParagraphsOnSentences
splitLongParagraphsOnSentences(r, text) ==
    IF Len(text) <= r.chunkSize THEN <<text>>
    ELSE LET found == sentenceMatches(text)
         IN  packSentences(r, IF found = <<>> THEN <<text>> ELSE found,
                           1, <<>>)

RECURSIVE FlatMapSentences(_, _, _)
\* normalized.flatMap(para => this.splitLongParagraphsOnSentences(para))
FlatMapSentences(r, paragraphs, k) ==
    IF k > Len(paragraphs) THEN <<>>
    ELSE splitLongParagraphsOnSentences(r, paragraphs[k])
         \o FlatMapSentences(r, paragraphs, k + 1)

\* splitIntoParagraphs
splitIntoParagraphs(r, text) ==
    IF r.splitOnSentences
    THEN FlatMapSentences(r, blankLineSplit(text), 1)
    ELSE blankLineSplit(text)

BlankLine == <<"\n", "\n">>

\* slice(0, overlapSize) in the place of slice(-overlapSize): the overlap
\* is taken from the head of the flushed chunk
SliceLast_FromHead(t, n) == SubSeq(t, 1, IF Len(t) > n THEN n ELSE Len(t))

\* slice(-(overlapSize - 1)): the overlap is one character short
SliceLast_OneShort(t, n) ==
    SubSeq(t, IF Len(t) > n - 1 THEN Len(t) - n + 2 ELSE 1, Len(t))

\* currentChunkContent.slice(-overlapSize) for a positive overlapSize
SliceLast(t, n) == SubSeq(t, IF Len(t) > n THEN Len(t) - n + 1 ELSE 1, Len(t))

\* the chunk literal with startChar and endChar taken from each other's
\* variable
TextPiece_SpanSwapped(content, index, startPage, startChar, endChar) ==
    [content |-> trim(content), chunkIndex |-> index, startPage |-> startPage,
     startChar |-> endChar, endChar |-> startChar]

\* a chunk of the detailed chunker
TextPiece(content, index, startPage, startChar, endChar) ==
    [content |-> trim(content), chunkIndex |-> index, startPage |-> startPage,
     startChar |-> startChar, endChar |-> endChar]

PageOpening == <<"[", "P", "a", "g", "e", " ">>

\* the decimal digits, the digit of value v at place v + 1
DecimalDigits == <<"0", "1", "2", "3", "4", "5", "6", "7", "8", "9">>

\* parseInt(digits, 10) of a non-empty run of digits
parseInt(digits) ==
    LET valueOf(ch) == (CHOOSE v \in 1..10 : DecimalDigits[v] = ch) - 1
        value[k \in 0..Len(digits)] ==
            IF k = 0 THEN 0 ELSE 10 * value[k - 1] + valueOf(digits[k])
    IN  value[Len(digits)]

\* the place after the run of digits that starts at place i of t
DigitsEnd(t, i) ==
    Least({j \in i..(Len(t) + 1) : j = Len(t) + 1 \/ t[j] \notin Digits})

\* the places of t at which /\[Page (\d+)\]/ matches
PageMarkers(t) ==
    {i \in 1..Len(t) :
        /\ i + 5 <= Len(t)
        /\ SubSeq(t, i, i + 5) = PageOpening
        /\ DigitsEnd(t, i + 6) > i + 6
        /\ DigitsEnd(t, i + 6) <= Len(t)
        /\ t[DigitsEnd(t, i + 6)] = "]"}

\* the number of the marker at place i of t
PageAt(t, i) == parseInt(SubSeq(t, i + 6, DigitsEnd(t, i + 6) - 1))

\* pageNumber after the match on a paragraph (lines 67-70): the number of
\* its first marker, if it has one
pageAfter(paragraph, pageNumber) ==
    IF PageMarkers(paragraph) = {} THEN pageNumber
    ELSE PageAt(paragraph, Least(PageMarkers(paragraph)))

RECURSIVE chunkParagraphs(_, _, _, _, _, _, _, _)
\* the loop of chunkDocument from the k-th paragraph on, and the final
\* chunk after it
chunkParagraphs(r, paragraphs, k, currentChunkContent, currentChunkStart, currentChar, chunkIndex, pageNumber) ==
    IF k > Len(paragraphs)
    THEN (IF Len(trim(currentChunkContent)) > 0
          THEN <<TextPiece(currentChunkContent, chunkIndex, pageNumber,
                           currentChunkStart, currentChar)>>
          ELSE <<>>)
    ELSE IF /\ Len(currentChunkContent) > 0
            /\ Len(currentChunkContent) + Len(paragraphs[k]) > r.chunkSize
    THEN <<TextPiece(currentChunkContent, chunkIndex,
                     pageAfter(paragraphs[k], pageNumber),
                     currentChunkStart, currentChar)>>
         \o chunkParagraphs(r, paragraphs, k + 1,
                SliceLast(currentChunkContent, r.overlapSize)
                    \o BlankLine \o paragraphs[k],
                IF currentChar - r.overlapSize > 0
                THEN currentChar - r.overlapSize ELSE 0,
                currentChar + Len(paragraphs[k]) + 2,
                chunkIndex + 1,
                pageAfter(paragraphs[k], pageNumber))
    ELSE chunkParagraphs(r, paragraphs, k + 1,
                currentChunkContent
                    \o (IF Len(currentChunkContent) > 0 THEN BlankLine
                        ELSE <<>>)
                    \o paragraphs[k],
                currentChunkStart,
                currentChar + Len(paragraphs[k]) + 2,
                chunkIndex,
                pageAfter(paragraphs[k], pageNumber))

\* SemanticChunker.chunkDocument(documentId, documentName, text)
SemanticChunker_chunkDocument(r, text) ==
    chunkParagraphs(r, splitIntoParagraphs(r, text), 1, <<>>, 0, 0, 0, 1)

(* ---------------------------------------------------------------------- *)
(* State                                                                   *)
(* ---------------------------------------------------------------------- *)

VARIABLES
    initialized,   \* RAGManager.initialized
    retriever,     \* RAGManager.retriever: Null or a retriever
    documents,     \* RAGManager.documents
    chunks,        \* RAGManager.chunks
    op,            \* op[c]: the method caller c is in ("idle": in none)
    pc,            \* pc[c]: the await caller c stands at in that method
    query,         \* query[c]: the query argument of the call
    inner,         \* inner[c]: getEnhancedSystemPrompt is in its this.search
    pending,       \* pending[c]: the loadDocuments execution c awaits,
                   \* numbered in call order (NoLoad: none)
    returned,      \* what the step just taken returned to its caller
                   \* (NoReturn when it ended at an await)
    \* history variables, written by no code and read by no guard
    loaderCalls,   \* number of loadDocuments invocations so far
    indexRun,      \* the load execution documents, chunks and retriever
                   \* each come from (0: none)
    everReady,     \* the manager has been Ready at some time
    wasReady,      \* wasReady[c]: c is in a reset() that it called on a
                   \* Ready manager
    lastReset,     \* the last resolved reset(): its load execution and docs
    \* a DocumentRetriever on its own, and the search_pdfs tool over it
    rInput,        \* the chunks handed to createRetriever
    rConfig,       \* the RetrieverConfig handed to createRetriever
    rReady,        \* the retriever has been created and initialized
    rRetriever,    \* the DocumentRetriever: its configuration, retained
                   \* chunks and term maps
    rBuilds,       \* number of initialize calls made on the retriever
    rDone,         \* the search or tool call of this behaviour has been made
    rQuery,        \* its argument, a JavaScript value
    rResults,      \* what DocumentRetriever.search returned
    toolOut,       \* what handleSearchPdfs returned
    \* a SemanticChunker on its own
    cText,         \* the text of the document handed to chunkDocument
    cConfig,       \* the ChunkingConfig handed to the constructor
    cDone,         \* chunkDocument has returned
    cChunks        \* the chunks it returned

mgr   == <<initialized, retriever, documents, chunks>>
calls == <<op, pc, query, inner, pending, returned>>
hist  == <<loaderCalls, indexRun, everReady, wasReady, lastReset>>
rvars == <<rInput, rConfig, rReady, rRetriever, rBuilds, rDone, rQuery, rResults,
           toolOut>>
cvars == <<cText, cConfig, cDone, cChunks>>
pure  == <<rvars, cvars>>
vars  == <<mgr, calls, hist, pure>>

NoRun    == [documents |-> 0, chunks |-> 0, retriever |-> 0]
NoReturn == [caller |-> 0, op |-> "idle", kind |-> "none", refs |-> <<>>,
             run |-> 0]
NoReset  == [run |-> 0, docs |-> {}]

Result(k, refs, run) == [kind |-> k, refs |-> refs, run |-> run]

(* ---------------------------------------------------------------------- *)
(* The inputs of the retriever on its own: corpora, configurations,        *)
(* queries and tool arguments.                                             *)
(* ---------------------------------------------------------------------- *)

\* the largest number of two-character filler chunks added to a corpus
MaxFillers == 3

\* the largest length of the queries enumerated over QueryAlphabet
MaxQueryLen == 2

PhraseText ==
    <<"a", "n", "n", "u", "a", "l", " ", "l", "e", "a", "v", "e", " ", "i",
      "s", " ", "2", "1", " ", "d", "a", "y", "s">>

PolicyText ==
    <<"P", "o", "l", "i", "c", "y", ":", " ", "A", "n", "n", "u", "a", "l",
      " ", "l", "e", "a", "v", "e", " ", "i", "s", " ", "2", "1", " ", "d",
      "a", "y", "s", " ", "p", "e", "r", " ", "y", "e", "a", "r", " ", "f",
      "o", "r", " ", "a", "l", "l", " ", "f", "u", "l", "l", "-", "t", "i",
      "m", "e", " ", "s", "t", "a", "f", "f", ".">>

OrderedText ==
    <<"a", "b", " ", "c", "d", " ", "e", "f", " ", "g", "h", " ", "i", "j",
      " ", "k", "l", " ", "m", "n", " ", "o", "p">>

ReversedText ==
    <<"o", "p", " ", "m", "n", " ", "k", "l", " ", "i", "j", " ", "g", "h",
      " ", "e", "f", " ", "c", "d", " ", "a", "b">>

PairText ==
    <<"a", "b", " ", "c", "d">>

\* a chunk as the retriever sees it
TextChunk(i, text) ==
    [id |-> i, content |-> text, documentId |-> "doc",
     documentName |-> "doc", startPage |-> 1]

Numbered(texts) == List([i \in 1..Len(texts) |-> TextChunk(i, texts[i])])

DigitOf == <<"1", "2", "3", "4", "5", "6", "7", "8", "9">>

\* a text in which the token "ab" occurs twice
RepeatText == <<"a", "b", " ", "A", "b", " ", "c", "d">>

\* n filler texts "x1", "x2", ... that share no term with any query
Fillers(n) == List([k \in 1..n |-> <<"x", DigitOf[k]>>])

Corpora ==
    {Numbered(<<>>),
     Numbered(<<PhraseText>>),
     Numbered(<<PolicyText>>),
     Numbered(<<PairText, PairText, PairText>>),
     Numbered(<<PairText, PolicyText, PhraseText>>),
     Numbered(<<RepeatText, PairText>>)}
    \cup {Numbered(<<OrderedText, ReversedText>> \o Fillers(n)) :
             n \in 0..MaxFillers}

\* configurations: 0 stands for a field that is 0 or absent (both falsy)
Configs ==
    [topK : {0, 1, 2},
     relevanceThreshold : {0, Scale \div 10, 4 * Scale},
     minChunkLength : {0, 1, 6}]

QueryAlphabet == {"a", "b", " "}

SmallQueries ==
    UNION {[1..n -> QueryAlphabet] : n \in 1..MaxQueryLen}

RetrieverQueries ==
    {<<>>, <<" ", " ">>, <<"\n", "\t", " ">>,
     PhraseText,
     <<"2", "1", " ", "d", "a", "y", "s">>,
     <<" ", "2", "1", " ", "D", "A", "Y", "S", "\n">>,
     <<"A", "n", "n", "u", "a", "l", "-", "l", "e", "a", "v", "e">>,
     OrderedText, PairText,
     <<"g", "h">>, <<"z", "z">>, <<"c", "d", " ", "z", "z", " ", "y", "y">>}
    \cup SmallQueries

\* JavaScript values that can arrive as the tool's argument: the result
\* of typeof, whether the value is truthy, and the text of a string
Undefined == [type |-> "undefined", truthy |-> FALSE, text |-> <<>>]
NullValue == [type |-> "object", truthy |-> FALSE, text |-> <<>>]
NumberValue(n) == [type |-> "number", truthy |-> n # 0, text |-> <<>>]
ObjectValue == [type |-> "object", truthy |-> TRUE, text |-> <<>>]
StringValue(t) == [type |-> "string", truthy |-> Len(t) > 0, text |-> t]

ToolArguments ==
    {Undefined, NullValue, NumberValue(0), NumberValue(7), ObjectValue}
    \cup {StringValue(t) : t \in
            {<<>>, <<" ", " ">>, <<"\n", "\t", " ">>, PhraseText, PairText,
             <<"z", "z">>}}

NoConfig == [topK |-> 0, relevanceThreshold |-> 0, minChunkLength |-> 0]
NoToolOutput == [results |-> <<>>, total_matches |-> 0, note |-> ""]

\* the retriever is not in play
\* the largest number of initialize calls on one retriever
MaxBuilds == 2

RetrieverIdle ==
    /\ rInput = <<>>
    /\ rConfig = NoConfig
    /\ rReady = FALSE
    /\ rRetriever = DocumentRetriever(NoConfig)
    /\ rBuilds = 0
    /\ rDone = FALSE
    /\ rQuery = Undefined
    /\ rResults = <<>>
    /\ toolOut = NoToolOutput

(* ---------------------------------------------------------------------- *)
(* The inputs of the chunker on its own: texts and configurations.         *)
(* ---------------------------------------------------------------------- *)

\* the largest length of the texts enumerated over TextShapes
MaxTextLen == 6

\* a short text is a shape over a letter, a full stop and a newline; the
\* letter at place i is the i-th letter of the alphabet, so that no two
\* places of a text hold the same letter
ShapeAlphabet == {"x", ".", "\n"}

TextShapes == UNION {[1..n -> ShapeAlphabet] : n \in 0..MaxTextLen}

TextOf(shape) ==
    List([i \in 1..Len(shape) |->
            IF shape[i] = "x" THEN LowerLetters[i] ELSE shape[i]])

\* configurations for the short texts: 0 stands for a field that is 0 or
\* absent
SmallConfigs ==
    {[chunkSize |-> 2, overlapSize |-> 1, splitOnSentences |-> TRUE],
     [chunkSize |-> 2, overlapSize |-> 2, splitOnSentences |-> TRUE],
     [chunkSize |-> 3, overlapSize |-> 2, splitOnSentences |-> TRUE],
     [chunkSize |-> 3, overlapSize |-> 1, splitOnSentences |-> FALSE],
     [chunkSize |-> 0, overlapSize |-> 0, splitOnSentences |-> TRUE]}

\* the two-paragraph document: paragraph A of 700 characters and paragraph
\* B of 900, each of letters but for one space at place `gap` (0: none)
ParagraphA(gap) ==
    List([i \in 1..700 |->
            IF i = gap THEN " " ELSE LowerLetters[(i % 26) + 1]])
ParagraphB(gap) ==
    List([i \in 1..900 |->
            IF i = gap THEN " " ELSE UpperLetters[(i % 26) + 1]])

GapsA == {0, 350, 501, 650}
GapsB == {0, 450}

TwoParagraphs(gapA, gapB) ==
    ParagraphA(gapA) \o BlankLine \o ParagraphB(gapB)

DefaultChunking ==
    [chunkSize |-> 0, overlapSize |-> 0, splitOnSentences |-> TRUE]
StatedChunking ==
    [chunkSize |-> chunkSize, overlapSize |-> overlapSize,
     splitOnSentences |-> TRUE]

\* the largest number of paragraphs of the documents with page markers
MaxPageParagraphs == 3

\* the paragraphs of the documents with page markers: plain text, a marker
\* alone, a marker before text, two markers, a marker of two digits
PageParagraphs ==
    {<<"a", "b">>,
     <<"[", "P", "a", "g", "e", " ", "2", "]">>,
     <<"[", "P", "a", "g", "e", " ", "3", "]", " ", "c", "d">>,
     <<"[", "P", "a", "g", "e", " ", "4", "]", " ",
       "[", "P", "a", "g", "e", " ", "5", "]">>,
     <<"e", " ", "[", "P", "a", "g", "e", " ", "1", "2", "]">>}

RECURSIVE JoinParagraphs(_, _)
\* the paragraphs from the k-th on, with a blank line between two
JoinParagraphs(ps, k) ==
    IF k > Len(ps) THEN <<>>
    ELSE IF k = Len(ps) THEN ps[k]
    ELSE ps[k] \o BlankLine \o JoinParagraphs(ps, k + 1)

PagedTexts ==
    {JoinParagraphs(ps, 1) :
        ps \in UNION {[1..n -> PageParagraphs] : n \in 1..MaxPageParagraphs}}

\* configurations for the documents with page markers
PagedConfigs ==
    {[chunkSize |-> 12, overlapSize |-> 2, splitOnSentences |-> TRUE],
     [chunkSize |-> 20, overlapSize |-> 3, splitOnSentences |-> TRUE]}

\* the chunker is not in play
ChunkerIdle ==
    /\ cText = <<>>
    /\ cConfig = DefaultChunking
    /\ cDone = FALSE
    /\ cChunks = <<>>

\* the manager after construction
ManagerInit ==
    /\ initialized = FALSE
    /\ retriever = Null
    /\ documents = <<>>
    /\ chunks = <<>>
    /\ op = [c \in Callers |-> "idle"]
    /\ pc = [c \in Callers |-> "idle"]
    /\ query = [c \in Callers |-> ""]
    /\ inner = [c \in Callers |-> FALSE]
    /\ pending = [c \in Callers |-> NoLoad]
    /\ returned = NoReturn
    /\ loaderCalls = 0
    /\ indexRun = NoRun
    /\ everReady = FALSE
    /\ wasReady = [c \in Callers |-> FALSE]
    /\ lastReset = NoReset

Init == ManagerInit /\ RetrieverIdle /\ ChunkerIdle

(* ---------------------------------------------------------------------- *)
(* loadDocuments.  The call returns a promise; what the promise settles    *)
(* with depends on the documents directory and is not known to the model   *)
(* before it settles.  The promise rejects when the PDFLoader constructor  *)
(* throws (process.cwd() is evaluated outside every try); otherwise it     *)
(* resolves with what loadPDFs makes of the directory.                     *)
(* ---------------------------------------------------------------------- *)

LoadResults == {loadPDFs(files) : files \in Directories}

\* the call of loadDocuments by caller c, who then awaits the promise
loadDocuments(c) ==
    /\ loaderCalls < MaxLoads
    /\ pending' = [pending EXCEPT ![c] = loaderCalls + 1]
    /\ loaderCalls' = loaderCalls + 1
    /\ pc' = [pc EXCEPT ![c] = "loading"]

(* ---------------------------------------------------------------------- *)
(* A method's return: the caller holds the outcome and is in no method.    *)
(* ---------------------------------------------------------------------- *)

Returns(c, r) ==
    /\ op' = [op EXCEPT ![c] = "idle"]
    /\ pc' = [pc EXCEPT ![c] = "idle"]
    /\ query' = [query EXCEPT ![c] = ""]
    /\ inner' = [inner EXCEPT ![c] = FALSE]
    /\ pending' = [pending EXCEPT ![c] = NoLoad]
    /\ wasReady' = [wasReady EXCEPT ![c] = FALSE]
    /\ returned' = [caller |-> c, op |-> op[c], kind |-> r.kind,
                    refs |-> r.refs, run |-> r.run]

(* ---------------------------------------------------------------------- *)
(* A call of method o that begins with `await this.ensureInitialized()`    *)
(* (or is ensureInitialized or initialize itself), up to its first await:  *)
(* ensureInitialized tests the flag, initialize tests it again and calls   *)
(* loadDocuments.  With the flag set, initialize and ensureInitialized     *)
(* return at once; the other methods stand at their await.                 *)
(* ---------------------------------------------------------------------- *)

\* ensureInitialized only awaits initialize(): a caller inside it stands
\* in initialize
Standing(o) == IF o = "ensureInitialized" THEN "initialize" ELSE o

Terminal(o) == Standing(o) \in {"initialize", "reset"}

\* Enter without the tests of the flag: every call loads
Enter_NoFlagTest(c, o, q) ==
    /\ op[c] = "idle"
    /\ loadDocuments(c)
    /\ op' = [op EXCEPT ![c] = Standing(o)]
    /\ query' = [query EXCEPT ![c] = q]
    /\ returned' = NoReturn
    /\ UNCHANGED <<inner, wasReady>>
    /\ UNCHANGED <<mgr, indexRun, everReady, lastReset>>
    /\ UNCHANGED pure

Enter(c, o, q) ==
    /\ op[c] = "idle"
    /\ IF ~initialized
       THEN /\ loadDocuments(c)
            /\ op' = [op EXCEPT ![c] = Standing(o)]
            /\ query' = [query EXCEPT ![c] = q]
            /\ returned' = NoReturn
            /\ UNCHANGED <<inner, wasReady>>
       ELSE IF Terminal(o)
       THEN /\ returned' = [caller |-> c, op |-> o, kind |-> "resolved",
                            refs |-> <<>>, run |-> indexRun.retriever]
            /\ UNCHANGED <<op, pc, query, inner, pending, wasReady,
                           loaderCalls>>
       ELSE /\ op' = [op EXCEPT ![c] = o]
            /\ pc' = [pc EXCEPT ![c] = "resume"]
            /\ query' = [query EXCEPT ![c] = q]
            /\ returned' = NoReturn
            /\ UNCHANGED <<inner, pending, wasReady, loaderCalls>>
    /\ UNCHANGED <<mgr, indexRun, everReady, lastReset>>
    /\ UNCHANGED pure

initialize(c)        == Enter(c, "initialize", "")
ensureInitialized(c) == Enter(c, "ensureInitialized", "")
search(c, q)         == Enter(c, "search", q)
searchRaw(c, q)      == Enter(c, "searchRaw", q)
getStats(c)          == Enter(c, "getStats", "")
getEnhancedSystemPrompt(c, q) == Enter(c, "getEnhancedSystemPrompt", q)

\* reset() that forgets `this.chunks = []`
reset_KeepsChunks(c) ==
    /\ op[c] = "idle"
    /\ op' = [op EXCEPT ![c] = "reset"]
    /\ retriever' = Null
    /\ documents' = <<>>
    /\ chunks' = chunks
    /\ initialized' = FALSE
    /\ loadDocuments(c)
    /\ wasReady' = [wasReady EXCEPT ![c] = initialized]
    /\ indexRun' = [documents |-> 0, chunks |-> indexRun.chunks,
                    retriever |-> 0]
    /\ returned' = NoReturn
    /\ UNCHANGED <<query, inner, everReady, lastReset>>
    /\ UNCHANGED pure

\* reset() that forgets `this.retriever = null`
reset_KeepsRetriever(c) ==
    /\ op[c] = "idle"
    /\ op' = [op EXCEPT ![c] = "reset"]
    /\ retriever' = retriever
    /\ documents' = <<>>
    /\ chunks' = <<>>
    /\ initialized' = FALSE
    /\ loadDocuments(c)
    /\ wasReady' = [wasReady EXCEPT ![c] = initialized]
    /\ indexRun' = [documents |-> 0, chunks |-> 0,
                    retriever |-> indexRun.retriever]
    /\ returned' = NoReturn
    /\ UNCHANGED <<query, inner, everReady, lastReset>>
    /\ UNCHANGED pure

\* reset(): discard everything, clear the flag, then initialize()
reset(c) ==
    /\ op[c] = "idle"
    /\ op' = [op EXCEPT ![c] = "reset"]
    /\ retriever' = Null
    /\ documents' = <<>>
    /\ chunks' = <<>>
    /\ initialized' = FALSE
    /\ loadDocuments(c)
    /\ wasReady' = [wasReady EXCEPT ![c] = initialized]
    /\ indexRun' = NoRun
    /\ returned' = NoReturn
    /\ UNCHANGED <<query, inner, everReady, lastReset>>
    /\ UNCHANGED pure

\* initialize() after `await loadDocuments()` has resolved with docs:
\* lines 43-75
loadResolves(c, docs) ==
    /\ pc[c] = "loading"
    /\ documents' = docs
    /\ chunks' = chunkDocuments(documents')
    /\ retriever' = createRetriever(chunks')
    /\ initialized' = TRUE
    /\ indexRun' = [documents |-> pending[c], chunks |-> pending[c],
                    retriever |-> pending[c]]
    /\ everReady' = TRUE
    /\ IF Terminal(op[c])
       THEN Returns(c, Result("resolved", <<>>, pending[c]))
       ELSE /\ pc' = [pc EXCEPT ![c] = "resume"]
            /\ pending' = [pending EXCEPT ![c] = NoLoad]
            /\ returned' = NoReturn
            /\ UNCHANGED <<op, query, inner, wasReady>>
    /\ lastReset' = IF op[c] = "reset"
                    THEN [run |-> pending[c],
                          docs |-> {docs[i] : i \in 1..Len(docs)}]
                    ELSE lastReset
    /\ UNCHANGED loaderCalls
    /\ UNCHANGED pure

\* a catch block that logs the error and does not rethrow it
loadRejects_Swallows(c) ==
    /\ pc[c] = "loading"
    /\ Returns(c, Result("resolved", <<>>, pending[c]))
    /\ UNCHANGED <<mgr, loaderCalls, indexRun, everReady, lastReset>>
    /\ UNCHANGED pure

\* a catch block that reverts the manager to Uninitialized before it
\* rethrows
loadRejects_ClearsState(c) ==
    /\ pc[c] = "loading"
    /\ Returns(c, Result("rejected", <<>>, pending[c]))
    /\ retriever' = Null
    /\ documents' = <<>>
    /\ chunks' = <<>>
    /\ initialized' = FALSE
    /\ indexRun' = NoRun
    /\ UNCHANGED <<loaderCalls, everReady, lastReset>>
    /\ UNCHANGED pure

\* initialize() after `await loadDocuments()` has rejected: lines 76-79;
\* loadRejects with a retry: the failed load is started again inside the
\* same call instead of being reported
loadRejects_Retries(c) ==
    /\ pc[c] = "loading"
    /\ loadDocuments(c)
    /\ returned' = NoReturn
    /\ UNCHANGED <<op, query, inner, wasReady>>
    /\ UNCHANGED <<mgr, indexRun, everReady, lastReset>>
    /\ UNCHANGED pure

\* a catch block that neither rethrows nor returns: the call never
\* settles
loadRejects_Hangs(c) ==
    /\ pc[c] = "loading"
    /\ pc' = [pc EXCEPT ![c] = "hung"]
    /\ returned' = NoReturn
    /\ UNCHANGED <<op, query, inner, pending, wasReady>>
    /\ UNCHANGED <<mgr, loaderCalls, indexRun, everReady, lastReset>>
    /\ UNCHANGED pure

\* the error passes through every awaiting method to the caller
loadRejects(c) ==
    /\ pc[c] = "loading"
    /\ Returns(c, Result("rejected", <<>>, pending[c]))
    /\ UNCHANGED <<mgr, loaderCalls, indexRun, everReady, lastReset>>
    /\ UNCHANGED pure

\* what search()/searchRaw() returns once ensureInitialized has resolved
searchOutcome(c) ==
    IF retriever = Null
    THEN Result("notInitialized", <<>>, 0)
    ELSE Result("results", retrieverSearch(retriever, query[c]),
                indexRun.retriever)

\* searchResumes with a search that takes the chunks it returns out of
\* the retriever's retained list
searchResumes_ConsumesChunks(c) ==
    /\ pc[c] = "resume"
    /\ op[c] \in {"search", "searchRaw"}
    /\ Returns(c, searchOutcome(c))
    /\ retriever' = IF retriever = Null THEN Null
                    ELSE [retriever EXCEPT
                            !.chunks = SubSeq(@, Min(topK, Len(@)) + 1, Len(@))]
    /\ UNCHANGED <<initialized, documents, chunks>>
    /\ UNCHANGED <<loaderCalls, indexRun, everReady, lastReset>>
    /\ UNCHANGED pure

\* search() and searchRaw() after `await this.ensureInitialized()`
searchResumes(c) ==
    /\ pc[c] = "resume"
    /\ op[c] \in {"search", "searchRaw"}
    /\ Returns(c, searchOutcome(c))
    /\ UNCHANGED <<mgr, loaderCalls, indexRun, everReady, lastReset>>
    /\ UNCHANGED pure

\* getStats() after `await this.ensureInitialized()`: the retriever's
\* statistics, or the placeholder {totalChunks: 0} without a retriever
getStatsResumes(c) ==
    /\ pc[c] = "resume"
    /\ op[c] = "getStats"
    /\ Returns(c, IF retriever = Null
                  THEN Result("noRetrieverStats", <<>>, 0)
                  ELSE Result("stats", retriever.chunks, indexRun.retriever))
    /\ UNCHANGED <<mgr, loaderCalls, indexRun, everReady, lastReset>>
    /\ UNCHANGED pure

\* getEnhancedSystemPrompt() after its own await: lines 126-140
promptResumes(c) ==
    /\ pc[c] = "resume"
    /\ op[c] = "getEnhancedSystemPrompt"
    /\ ~inner[c]
    /\ IF retriever = Null \/ chunks = <<>>
       THEN /\ Returns(c, Result("basePrompt", <<>>, 0))
            /\ UNCHANGED loaderCalls
       ELSE IF query[c] # ""
       THEN /\ inner' = [inner EXCEPT ![c] = TRUE]
            /\ IF ~initialized
               THEN loadDocuments(c)
               ELSE UNCHANGED <<pc, pending, loaderCalls>>
            /\ returned' = NoReturn
            /\ UNCHANGED <<op, query, wasReady>>
       ELSE /\ Returns(c, Result("overview", chunks, indexRun.chunks))
            /\ UNCHANGED loaderCalls
    /\ UNCHANGED <<mgr, indexRun, everReady, lastReset>>
    /\ UNCHANGED pure

\* getEnhancedSystemPrompt() after `await this.search(userQuery)`
promptSearchResumes(c) ==
    /\ pc[c] = "resume"
    /\ op[c] = "getEnhancedSystemPrompt"
    /\ inner[c]
    /\ Returns(c, searchOutcome(c))
    /\ UNCHANGED <<mgr, loaderCalls, indexRun, everReady, lastReset>>
    /\ UNCHANGED pure

Next ==
    \E c \in Callers :
        \/ initialize(c)
        \/ ensureInitialized(c)
        \/ \E q \in Queries : search(c, q)
        \/ \E q \in Queries : searchRaw(c, q)
        \/ getStats(c)
        \/ \E q \in UserQueries : getEnhancedSystemPrompt(c, q)
        \/ reset(c)
        \/ \E docs \in LoadResults : loadResolves(c, docs)
        \/ loadRejects(c)
        \/ searchResumes(c)
        \/ getStatsResumes(c)
        \/ promptResumes(c)
        \/ promptSearchResumes(c)

Spec == Init /\ [][Next]_vars

(* ---------------------------------------------------------------------- *)
(* Progress.  A promise that loadDocuments returned settles, and the       *)
(* continuation of an await whose promise has settled is run by the event  *)
(* loop: neither can be put off for ever.  Whether a caller makes a call   *)
(* at all is left to the caller.                                           *)
(* ---------------------------------------------------------------------- *)

\* the promise of caller c's loadDocuments settles
loadSettles(c) ==
    \/ \E docs \in LoadResults : loadResolves(c, docs)
    \/ loadRejects(c)

\* the continuation of caller c after `await this.ensureInitialized()`
\* or `await this.search(userQuery)`
Continues(c) ==
    \/ searchResumes(c)
    \/ getStatsResumes(c)
    \/ promptResumes(c)
    \/ promptSearchResumes(c)

FairSpec ==
    /\ Spec
    /\ \A c \in Callers : WF_vars(loadSettles(c)) /\ WF_vars(Continues(c))

(* ---------------------------------------------------------------------- *)
(* The retriever on its own: one DocumentRetriever is created over a       *)
(* corpus with a configuration and is given one query, either directly    *)
(* or through the search_pdfs tool.  The tool reaches the retriever        *)
(* through the manager (ensureInitialized, then searchRaw); here the       *)
(* manager is one caller's, Ready when the retriever has been created.     *)
(* ---------------------------------------------------------------------- *)

RetrieverInit ==
    /\ ManagerInit
    /\ ChunkerIdle
    /\ rInput \in Corpora
    /\ rConfig \in Configs
    /\ rReady = FALSE
    /\ rRetriever = DocumentRetriever(rConfig)
    /\ rBuilds = 0
    /\ rDone = FALSE
    /\ rQuery = Undefined
    /\ rResults = <<>>
    /\ toolOut = NoToolOutput

\* createRetriever(chunks, config)
CreateRetriever ==
    /\ ~rReady
    /\ ~rDone
    /\ rRetriever' = createRetrieverWith(rInput, rConfig)
    /\ rReady' = TRUE
    /\ rBuilds' = 1
    /\ UNCHANGED <<rInput, rConfig, rDone, rQuery, rResults, toolOut>>
    /\ UNCHANGED <<mgr, calls, hist, cvars>>

\* retriever.initialize(cs) on the retriever that createRetriever made
Reinitialize(cs) ==
    /\ rReady
    /\ ~rDone
    /\ rBuilds < MaxBuilds
    /\ rRetriever' = DocumentRetriever_initialize(rRetriever, cs)
    /\ rInput' = cs
    /\ rBuilds' = rBuilds + 1
    /\ UNCHANGED <<rConfig, rReady, rDone, rQuery, rResults, toolOut>>
    /\ UNCHANGED <<mgr, calls, hist, cvars>>

\* DocumentRetriever.search(q)
RetrieverSearch(q) ==
    /\ rReady
    /\ ~rDone
    /\ rDone' = TRUE
    /\ rQuery' = StringValue(q)
    /\ rResults' = DocumentRetriever_search(rRetriever, q)
    /\ UNCHANGED <<rInput, rConfig, rReady, rRetriever, rBuilds, toolOut>>
    /\ UNCHANGED <<mgr, calls, hist, cvars>>

InvalidQueryOutput ==
    [results |-> <<>>, total_matches |-> 0,
     note |-> "Invalid query provided. Query must be a non-empty string."]
EmptyQueryOutput ==
    [results |-> <<>>, total_matches |-> 0, note |-> "Query cannot be empty."]
SearchErrorOutput ==
    [results |-> <<>>, total_matches |-> 0,
     note |-> "Error searching documents. Please try again with a different query."]
NoMatchOutput ==
    [results |-> <<>>, total_matches |-> 0,
     note |-> "No matching documents found for the query."]

\* what handleSearchPdfs returns for a valid query once searchRaw has
\* returned rawResults: the callback of rawResults.map reads `score`,
\* which no scope declares, so its first call throws a ReferenceError
\* that the catch turns into the error output; with no result the
\* callback is never called
searchOutput(rawResults) ==
    IF rawResults = <<>> THEN NoMatchOutput ELSE SearchErrorOutput

\* handleSearchPdfs(query): validation, then ensureInitialized (on a
\* manager that is not Ready the pipeline runs and succeeds or throws)
\* and searchRaw
handleSearchPdfs(arg) ==
    /\ ~rDone
    /\ rDone' = TRUE
    /\ rQuery' = arg
    /\ UNCHANGED rResults
    /\ IF ~arg.truthy \/ arg.type # "string"
       THEN toolOut' = InvalidQueryOutput
            /\ UNCHANGED <<rReady, rRetriever, rBuilds>>
       ELSE IF Len(trim(arg.text)) = 0
       THEN toolOut' = EmptyQueryOutput
            /\ UNCHANGED <<rReady, rRetriever, rBuilds>>
       ELSE IF rReady
       THEN /\ toolOut' = searchOutput(
                             DocumentRetriever_search(rRetriever, trim(arg.text)))
            /\ UNCHANGED <<rReady, rRetriever, rBuilds>>
       ELSE \/ /\ rRetriever' = createRetrieverWith(rInput, rConfig)
               /\ rReady' = TRUE
               /\ rBuilds' = 1
               /\ toolOut' = searchOutput(
                                DocumentRetriever_search(rRetriever',
                                                         trim(arg.text)))
            \/ /\ toolOut' = SearchErrorOutput
               /\ UNCHANGED <<rReady, rRetriever, rBuilds>>
    /\ UNCHANGED <<rInput, rConfig>>
    /\ UNCHANGED <<mgr, calls, hist, cvars>>

RetrieverNext ==
    \/ CreateRetriever
    \/ \E cs \in Corpora : Reinitialize(cs)
    \/ \E q \in RetrieverQueries : RetrieverSearch(q)
    \/ \E arg \in ToolArguments : handleSearchPdfs(arg)

RetrieverSpec == RetrieverInit /\ [][RetrieverNext]_vars

(* ---------------------------------------------------------------------- *)
(* The chunker on its own: one SemanticChunker is constructed with a       *)
(* configuration and chunks one document.                                  *)
(* ---------------------------------------------------------------------- *)

ChunkerInit ==
    /\ ManagerInit
    /\ RetrieverIdle
    /\ \/ \E shape \in TextShapes, config \in SmallConfigs :
             cText = TextOf(shape) /\ cConfig = config
       \/ \E gapA \in GapsA, gapB \in GapsB,
             config \in {DefaultChunking, StatedChunking} :
             cText = TwoParagraphs(gapA, gapB) /\ cConfig = config
       \/ \E text \in PagedTexts, config \in PagedConfigs :
             cText = text /\ cConfig = config
    /\ cDone = FALSE
    /\ cChunks = <<>>

\* new SemanticChunker(config).chunkDocument(id, name, text)
ChunkDocument ==
    /\ ~cDone
    /\ cDone' = TRUE
    /\ cChunks' = SemanticChunker_chunkDocument(SemanticChunker(cConfig), cText)
    /\ UNCHANGED <<cText, cConfig>>
    /\ UNCHANGED <<mgr, calls, hist, rvars>>

ChunkerNext == ChunkDocument

ChunkerSpec == ChunkerInit /\ [][ChunkerNext]_vars

(* ====================================================================== *)
(* Properties of the orchestrator                                          *)
(* ====================================================================== *)

Loading == {c \in Callers : pc[c] = "loading"}

\* caller c calls initialize() or ensureInitialized() in this step
CallsEnsure(c) ==
    /\ op[c] = "idle"
    /\ \/ op'[c] = "initialize"
       \/ /\ returned' # returned
          /\ returned'.caller = c
          /\ returned'.op \in {"initialize", "ensureInitialized"}

\* the loadDocuments promise that caller c awaits settles in this step
Settles(c) == pc[c] = "loading" /\ pc'[c] # "loading"

\* ... and it resolves: initialize installs the index of that execution
RunSucceeds(c) == Settles(c) /\ indexRun'.retriever = pending[c]

\* ... and it rejects
RunFails(c) == Settles(c) /\ indexRun'.retriever # pending[c]

\* C1: single-flight.  As long as every loadDocuments invocation made so
\* far is still awaited by a caller that entered through initialize() or
\* ensureInitialized() (so the callers all started on the fresh manager
\* and none has completed), loadDocuments has been invoked at most once.
C1_SingleFlight ==
    (/\ loaderCalls = Cardinality(Loading)
     /\ \A c \in Loading : op[c] = "initialize")
    => loaderCalls <= 1

\* C2: a caller that calls ensureInitialized() while the pipeline of
\* another caller is in flight attaches to it: the call starts no
\* pipeline of its own (it invokes no loadDocuments).
C2_AttachesToInFlight ==
    [][\A c \in Callers :
          (CallsEnsure(c) /\ \E d \in Callers \ {c} : pc[d] = "loading")
          => loaderCalls' = loaderCalls]_vars

\* C3: reset() is a hard cutover.  No search(), searchRaw() or getStats()
\* call returns what the code returns when it finds the retriever
\* discarded: the 'RAG system not initialized' string, the empty list of
\* the missing retriever, or the {totalChunks: 0} placeholder.
C3_NoHalfResetObserved ==
    returned.op \in {"search", "searchRaw", "getStats"}
    => returned.kind \notin {"notInitialized", "noRetrieverStats"}

\* C4: a failed reset() does not destroy a Ready index.  When the run
\* that a reset() called on a Ready manager started fails, the manager
\* is still Ready and still has a retriever after the reset() rejects.
C4_FailedResetKeepsIndex ==
    [][\A c \in Callers :
          (op[c] = "reset" /\ wasReady[c] /\ RunFails(c))
          => (initialized' /\ retriever' # Null)]_vars

\* C5: no torn index.  In every reachable state documents, chunks and
\* retriever are all empty/absent, or all three come from one and the
\* same loadDocuments execution: chunks are the chunks of documents and
\* the retriever is the one built from chunks.
C5_NoTornIndex ==
    \/ /\ documents = <<>>
       /\ chunks = <<>>
       /\ retriever = Null
       /\ indexRun = NoRun
    \/ /\ indexRun.documents \in 1..loaderCalls
       /\ indexRun.chunks = indexRun.documents
       /\ indexRun.retriever = indexRun.documents
       /\ documents \in LoadResults
       /\ chunks = chunkDocuments(documents)
       /\ retriever = createRetriever(chunks)

\* C5 happens: a load that was in flight when reset() was called has
\* installed its index while the run of the reset() is still in flight
C5_Witness ==
    \E c \in Callers :
        /\ op[c] = "reset"
        /\ pc[c] = "loading"
        /\ retriever # Null
        /\ indexRun.retriever < pending[c]

\* C6: once a reset() has resolved, every search()/searchRaw() result
\* references only chunks of documents that this reset loaded, unless
\* the index it was computed from comes from a pipeline run started
\* after the run of the reset.
C6_NoStaleResultsAfterReset ==
    (/\ returned.op \in {"search", "searchRaw"}
     /\ returned.kind = "results"
     /\ lastReset.run # 0)
    => \/ returned.run > lastReset.run
       \/ DocsOf(returned.refs) \subseteq lastReset.docs

\* C7: when a run fails on a manager that has never been Ready, the
\* error reaches the caller that triggered the run and the manager is
\* Uninitialized (flag clear, no retriever); a call of ensureInitialized()
\* on an Uninitialized manager runs the pipeline again; and a run that
\* succeeds makes the manager Ready.
C7_FailureRevertsAndRetryWorks ==
    [][\A c \in Callers :
          /\ (RunFails(c) /\ ~everReady)
             => /\ returned'.caller = c
                /\ returned'.kind = "rejected"
                /\ ~initialized'
                /\ retriever' = Null
          /\ (CallsEnsure(c) /\ ~initialized)
             => /\ pc'[c] = "loading"
                /\ loaderCalls' = loaderCalls + 1
          /\ RunSucceeds(c)
             => /\ initialized'
                /\ retriever' # Null]_vars

\* C7 happens: the only run so far has failed on the fresh manager
C7_Witness ==
    /\ returned.kind = "rejected"
    /\ returned.op = "initialize"
    /\ ~everReady
    /\ ~initialized
    /\ loaderCalls = 1

\* C8: the manager does not become Ready over an empty index: when the
\* pipeline produces no usable document (no chunk is indexed) the flag
\* stays clear.
C8_NotReadyOverEmptyIndex ==
    initialized => retriever.chunks # <<>>

\* C9: a call of ensureInitialized() (or initialize()) made while the
\* manager is Ready invokes no loader, leaves documents, chunks,
\* retriever and the flag unchanged, and resolves at once.
C9_IdempotentWhenReady ==
    [][\A c \in Callers :
          (CallsEnsure(c) /\ initialized)
          => /\ loaderCalls' = loaderCalls
             /\ UNCHANGED mgr
             /\ op'[c] = "idle"
             /\ returned'.kind = "resolved"]_vars

\* C9 happens: ensureInitialized() has just returned on a Ready manager
C9_Witness ==
    /\ returned.op = "ensureInitialized"
    /\ returned.kind = "resolved"
    /\ initialized

\* C10: the manager becomes Ready only in a step in which a pipeline run
\* completes successfully, leaves Ready only in a step that is a call of
\* reset(), and loadDocuments is invoked only with the manager non-Ready.
C10_OnlySpecifiedTransitions ==
    [][/\ (~initialized /\ initialized')
          => \E c \in Callers : RunSucceeds(c)
       /\ (initialized /\ ~initialized')
          => \E c \in Callers : op[c] = "idle" /\ op'[c] = "reset"
       /\ (loaderCalls' # loaderCalls)
          => ~initialized']_vars

\* C10 happens: a run fails while the manager is Ready (the run of
\* another caller has succeeded in the meantime)
C10_Witness ==
    /\ returned.kind = "rejected"
    /\ initialized
    /\ retriever # Null

\* caller c is inside one of the calls C11 names (ensureInitialized is
\* stored as the initialize it awaits)
InNamedCall(c) == op[c] \in {"initialize", "search", "reset"}

\* C11: no automatic retry.  A step invokes the loader at most once; a
\* caller that is inside an ensureInitialized(), search() or reset() call
\* never starts a second load in that call (its awaited load stays the
\* same or is given up); and a step in which a run fails invokes no
\* loader and hands the rejection back to the caller, so the next
\* invocation can only come from a new call.
C11_NoAutomaticRetry ==
    [][/\ loaderCalls' \in {loaderCalls, loaderCalls + 1}
       /\ \A c \in Callers :
            /\ InNamedCall(c) => pending'[c] \in {pending[c], NoLoad}
            /\ RunFails(c) => /\ loaderCalls' = loaderCalls
                              /\ op'[c] = "idle"
                              /\ returned'.kind = "rejected"]_vars

\* C11 happens: the only loader invocation so far has failed inside one of
\* the named calls and nothing was started in its place
C11_Witness ==
    /\ returned.kind = "rejected"
    /\ returned.op \in {"initialize", "search", "reset"}
    /\ loaderCalls = 1
    /\ Loading = {}

\* caller c calls search()/searchRaw() in this step
CallsSearch(c) ==
    op[c] = "idle" /\ op'[c] \in {"search", "searchRaw"}

\* the search()/searchRaw() call of caller c returns in this step
SearchReturns(c) ==
    /\ op[c] \in {"search", "searchRaw"}
    /\ pc[c] = "resume"
    /\ op'[c] = "idle"

\* C12: searches on a Ready manager are read-only.  Neither the call of
\* search()/searchRaw() on a Ready manager nor its completion changes the
\* documents, the chunks, the retriever (its retained chunks, from which
\* its term maps are built) or the flag, and neither invokes the loader;
\* what the search returns is what the retriever gives for the query on
\* the index as it stands, however many other searches are in progress.
C12_SearchIsReadOnly ==
    [][\A c \in Callers :
          /\ (CallsSearch(c) /\ initialized)
             => UNCHANGED mgr /\ loaderCalls' = loaderCalls
          /\ (SearchReturns(c) /\ initialized)
             => /\ UNCHANGED mgr
                /\ loaderCalls' = loaderCalls
                /\ returned'.kind = "results"
                /\ returned'.refs = retrieverSearch(retriever, query[c])]_vars

\* C12 happens: a search has just returned results on a Ready manager
\* while another search is still in progress
C12_Witness ==
    /\ returned.op \in {"search", "searchRaw"}
    /\ returned.kind = "results"
    /\ returned.refs # <<>>
    /\ initialized
    /\ \E c \in Callers : op[c] \in {"search", "searchRaw"} /\ pc[c] = "resume"

(* ====================================================================== *)
(* Properties of the retriever and of the search_pdfs tool                 *)
(* ====================================================================== *)

\* the call of this behaviour was a tool call (handleSearchPdfs always
\* returns a note)
ToolCalled == rDone /\ toolOut # NoToolOutput

\* the call of this behaviour was a direct DocumentRetriever.search
SearchCalled == rDone /\ toolOut = NoToolOutput

\* no string, or a string that is empty once trimmed
InvalidQuery(arg) == arg.type # "string" \/ Len(trim(arg.text)) = 0

\* C13: invalid queries are handled locally.  handleSearchPdfs with an
\* argument that is no string, or an empty or whitespace-only string,
\* returns no result, total_matches 0 and a non-empty note, and does so
\* on its validation path, not through its catch; DocumentRetriever.search
\* with an empty or whitespace-only query returns the empty list whatever
\* the index holds.
C13_InvalidQueriesHandledLocally ==
    /\ (ToolCalled /\ InvalidQuery(rQuery))
       => /\ toolOut.results = <<>>
          /\ toolOut.total_matches = 0
          /\ toolOut.note # ""
          /\ toolOut # SearchErrorOutput
    /\ (SearchCalled /\ InvalidQuery(rQuery)) => rResults = <<>>

\* C13 happens: a whitespace-only query has been given to the search of a
\* retriever that retains chunks
C13_Witness ==
    /\ SearchCalled
    /\ rQuery.type = "string"
    /\ Len(rQuery.text) > 0
    /\ Len(trim(rQuery.text)) = 0
    /\ rRetriever.chunks # <<>>

\* the score, before its division by 10, of the n-th result of the search
\* of this behaviour
RawScore(n) == scoredChunks(rRetriever, rQuery.text)[n].score

\* C14: for every configuration and query, search returns at most the
\* configured topK results, and every result it returns was scored above
\* the configured relevanceThreshold.
C14_TopKAndThreshold ==
    SearchCalled
    => /\ Len(rResults) <= rConfig.topK
       /\ \A n \in 1..Len(rResults) : RawScore(n) > rConfig.relevanceThreshold

\* the i-th retained chunk holds the whole trimmed query, case aside
HoldsQuery(i) ==
    includes(toLowerCase(rRetriever.chunks[i].content),
             toLowerCase(trim(rQuery.text)))

\* the place in the retained list of the chunk of the n-th result
PlaceOf(n) ==
    CHOOSE i \in 1..Len(rRetriever.chunks) :
        rRetriever.chunks[i].id = rResults[n].chunk.id

\* C15: whenever the trimmed query is a case-insensitive substring of a
\* retained chunk, search returns that chunk with relevanceScore exactly
\* 1.0, ahead of every returned chunk that does not hold the whole query.
C15_ExactMatchRanksFirst ==
    (SearchCalled /\ ~InvalidQuery(rQuery))
    => \A i \in 1..Len(rRetriever.chunks) :
          HoldsQuery(i)
          => \E n \in 1..Len(rResults) :
                /\ PlaceOf(n) = i
                /\ rResults[n].relevanceScore = One
                /\ \A m \in 1..Len(rResults) :
                      ~HoldsQuery(PlaceOf(m)) => n < m

\* the index of this behaviour is one retained chunk that holds the phrase
\* "annual leave is 21 days"
OnePhraseChunk ==
    /\ Len(rRetriever.chunks) = 1
    /\ includes(toLowerCase(rRetriever.chunks[1].content), PhraseText)

TwentyOneDays == <<"2", "1", " ", "d", "a", "y", "s">>

\* the phrase query returns the chunk first with relevanceScore 1.0
PhraseQueryScoresOne ==
    rQuery.text = PhraseText
    => /\ Len(rResults) >= 1
       /\ PlaceOf(1) = 1
       /\ rResults[1].relevanceScore = One

\* C16 as stated: on an index of one chunk that holds "annual leave is 21
\* days", the phrase query returns the chunk first with relevanceScore
\* 1.0, and the query "21 days" returns the same chunk with a
\* relevanceScore below 1.0 yet positive and above the threshold.
C16_PartialQueryScoresLower ==
    (SearchCalled /\ OnePhraseChunk)
    => /\ PhraseQueryScoresOne
       /\ rQuery.text = TwentyOneDays
          => /\ Len(rResults) = 1
             /\ PlaceOf(1) = 1
             /\ rResults[1].relevanceScore < One
             /\ rResults[1].relevanceScore > 0
             /\ RawScore(1) > rRetriever.relevanceThreshold

\* C16, amended: on such an index the phrase query returns the chunk first
\* with relevanceScore 1.0, and so does the query "21 days", which is
\* itself a substring of the chunk: it returns the same chunk, alone, with
\* relevanceScore exactly 1.0.
C16_PartialQueryIsExactToo ==
    (SearchCalled /\ OnePhraseChunk)
    => /\ PhraseQueryScoresOne
       /\ rQuery.text = TwentyOneDays
          => /\ Len(rResults) = 1
             /\ PlaceOf(1) = 1
             /\ rResults[1].relevanceScore = One
             /\ RawScore(1) > rRetriever.relevanceThreshold

\* C16 happens: "21 days" has been searched on an index of one chunk that
\* holds the phrase, and the chunk has come back
C16_Witness ==
    /\ SearchCalled
    /\ OnePhraseChunk
    /\ rQuery.text = TwentyOneDays
    /\ Len(rResults) = 1

\* C17: the results are in descending order of relevanceScore, and results
\* of equal relevanceScore are in the order of their chunks in the index.
C17_DescendingAndStable ==
    SearchCalled
    => \A n, m \in 1..Len(rResults) :
          n < m => /\ rResults[n].relevanceScore >= rResults[m].relevanceScore
                   /\ rResults[n].relevanceScore = rResults[m].relevanceScore
                      => PlaceOf(n) < PlaceOf(m)


(* ---------------------------------------------------------------------- *)
(* Claims about the chunker, under ChunkerSpec.                            *)
(* ---------------------------------------------------------------------- *)

\* the configuration in force is a chunk size of 1000 and an overlap of 200
StatedSizes ==
    /\ SemanticChunker(cConfig).chunkSize = 1000
    /\ SemanticChunker(cConfig).overlapSize = 200

\* the last n characters of t, or all of t when it is shorter
LastChars(t, n) ==
    IF Len(t) > n THEN SubSeq(t, Len(t) - n + 1, Len(t)) ELSE t

\* t begins with the text pre
StartsWith(t, pre) ==
    /\ Len(t) >= Len(pre)
    /\ SubSeq(t, 1, Len(pre)) = pre

\* t ends with the text post
EndsWith(t, post) ==
    /\ Len(t) >= Len(post)
    /\ LastChars(t, Len(post)) = post

\* C18: with a chunk size of 1000 and an overlap of 200, a document of a
\* 700-character paragraph A followed by a 900-character paragraph B is
\* chunked in two: chunk 0 is A alone, and chunk 1 begins with the last 200
\* characters of A and goes on with B.
C18_TwoParagraphScenario ==
    \A gapA \in GapsA, gapB \in GapsB :
        (cDone /\ StatedSizes /\ cText = TwoParagraphs(gapA, gapB)) =>
            /\ Len(cChunks) = 2
            /\ cChunks[1].chunkIndex = 0
            /\ cChunks[1].content = ParagraphA(gapA)
            /\ cChunks[2].chunkIndex = 1
            /\ StartsWith(cChunks[2].content, LastChars(ParagraphA(gapA), 200))
            /\ EndsWith(cChunks[2].content, ParagraphB(gapB))

\* C18 (amended): in the same scenario chunk 0 is A alone, and chunk 1 is
\* the last 200 characters of A less their leading whitespace, then a blank
\* line, then B.
C18_TwoParagraphScenarioTrimmed ==
    \A gapA \in GapsA, gapB \in GapsB :
        (cDone /\ StatedSizes /\ cText = TwoParagraphs(gapA, gapB)) =>
            /\ Len(cChunks) = 2
            /\ cChunks[1].chunkIndex = 0
            /\ cChunks[1].content = ParagraphA(gapA)
            /\ cChunks[2].chunkIndex = 1
            /\ cChunks[2].content =
                  trim(LastChars(ParagraphA(gapA), 200)) \o BlankLine
                      \o ParagraphB(gapB)

\* the scenario has been chunked, and the 200 characters carried over from A
\* begin with a space
C18_Witness ==
    /\ cDone
    /\ StatedSizes
    /\ cText = TwoParagraphs(501, 0)
    /\ Len(cChunks) = 2
    /\ Len(cChunks[2].content) = 199 + 2 + 900

\* the characters of chunk k that the next chunk is to repeat: the last
\* min(overlapSize, length) characters of its content
OverlapOf(k) ==
    LastChars(cChunks[k].content, SemanticChunker(cConfig).overlapSize)

\* C19: whenever a chunk is flushed because the next piece would overflow
\* chunkSize, the last min(overlapSize, length) characters of its content
\* are exactly the leading characters of the next chunk's content.
C19_OverlapIsRepeated ==
    cDone =>
        \A k \in 1..(Len(cChunks) - 1) :
            StartsWith(cChunks[k + 1].content, OverlapOf(k))

\* C19 (amended): the last min(overlapSize, length) characters of a flushed
\* chunk's content, less their leading whitespace, are the leading
\* characters of the next chunk's content.
C19_TrimmedOverlapIsRepeated ==
    cDone =>
        \A k \in 1..(Len(cChunks) - 1) :
            StartsWith(cChunks[k + 1].content, trim(OverlapOf(k)))

\* a chunk has been flushed, and the characters it hands over begin with
\* whitespace
C19_Witness ==
    /\ cDone
    /\ \E k \in 1..(Len(cChunks) - 1) :
          /\ OverlapOf(k)[1] \in Whitespace
          /\ trim(OverlapOf(k)) # <<>>

\* the characters of t that are not whitespace, in order
Solid(t) ==
    LET notSpace(ch) == ch \notin Whitespace
    IN  SelectSeq(t, notSpace)

RECURSIVE Joined(_, _)
\* the contents of the chunks from the k-th on, one after the other
Joined(cs, k) ==
    IF k > Len(cs) THEN <<>> ELSE cs[k].content \o Joined(cs, k + 1)

RECURSIVE AppearsInOrder(_, _, _, _)
\* the characters of `small` from the i-th on appear, in order, among the
\* characters of `large` from the j-th on: each character is matched with
\* its first occurrence after the previous match, a run of equal characters
\* in one step
AppearsInOrder(small, i, large, j) ==
    IF i > Len(small) THEN TRUE
    ELSE LET next == {n \in j..Len(large) : large[n] = small[i]}
             from == Least(next)
             most == IF Len(small) - i < Len(large) - from
                     THEN Len(small) - i + 1 ELSE Len(large) - from + 1
             run  == Least({d \in 1..most :
                              \/ d = most
                              \/ small[i + d] # large[from + d]})
         IN  /\ next # {}
             /\ AppearsInOrder(small, i + run, large, from + run)

\* the text t is found in the content of some chunk
InSomeChunk(t) ==
    \E k \in 1..Len(cChunks) : includes(cChunks[k].content, t)

\* the trimmed text of paragraph p after its last '.', '!' or '?'
AfterLastMark(p) ==
    LET marks == {i \in 1..Len(p) : p[i] \in SentenceEnd}
    IN  IF marks = {} THEN p
        ELSE trim(SubSeq(p, Greatest(marks) + 1, Len(p)))

\* C20: the chunker never drops text: every non-whitespace character of the
\* text appears, in the original order, in the content of some chunk; a
\* paragraph longer than chunkSize with no '.', '!' or '?' is emitted whole,
\* and a long paragraph that is split in sentences keeps the text after its
\* last terminal mark.
C20_NoTextIsDropped ==
    cDone =>
        LET r == SemanticChunker(cConfig)
            paragraphs == blankLineSplit(cText)
        IN  /\ AppearsInOrder(Solid(cText), 1, Solid(Joined(cChunks, 1)), 1)
            /\ \A n \in 1..Len(paragraphs) :
                  LET p == paragraphs[n]
                  IN  Len(p) > r.chunkSize =>
                        IF \A i \in 1..Len(p) : p[i] \notin SentenceEnd
                        THEN InSomeChunk(p)
                        ELSE InSomeChunk(AfterLastMark(p))


\* C21: the chunks of a document have chunkIndex 0, 1, 2, ... in output
\* order with no gap or repeat, startChar and endChar never decrease from
\* one chunk to the next, and startChar <= endChar in every chunk.
C21_IndexAndSpanOrder ==
    cDone =>
        \A k \in 1..Len(cChunks) :
            /\ cChunks[k].chunkIndex = k - 1
            /\ cChunks[k].startChar <= cChunks[k].endChar
            /\ k > 1 => /\ cChunks[k - 1].startChar <= cChunks[k].startChar
                        /\ cChunks[k - 1].endChar <= cChunks[k].endChar

\* a document has been chunked in three or more, the third chunk starting
\* after the head of the text
C21_Witness ==
    /\ cDone
    /\ Len(cChunks) >= 3
    /\ cChunks[3].startChar > cChunks[2].startChar
    /\ cChunks[2].startChar > 0

(* ---------------------------------------------------------------------- *)
(* Claims about the index of the retriever, under RetrieverSpec.           *)
(* ---------------------------------------------------------------------- *)

\* C22: rebuilds are full and deterministic: after initialize(C) on a
\* retriever that was initialized before, with C or with any other chunks,
\* the retained chunks, the term frequencies and the inverse document
\* frequencies are those of a fresh retriever initialized with C, and no
\* term of the index comes from anything but the retained chunks.
C22_RebuildIsFull ==
    rReady =>
        LET fresh == createRetrieverWith(rInput, rConfig)
        IN  /\ rRetriever.chunks = fresh.chunks
            /\ rRetriever.termFrequency = fresh.termFrequency
            /\ rRetriever.inverseDocumentFrequency
                  = fresh.inverseDocumentFrequency
            /\ \A term \in DOMAIN rRetriever.inverseDocumentFrequency :
                  \E i \in 1..Len(rRetriever.chunks) :
                      term \in DOMAIN rRetriever.termFrequency[i]

\* a retriever whose index held terms has been initialized again, with
\* chunks that hold none of them
C22_Witness ==
    /\ rReady
    /\ rBuilds = 2
    /\ rInput = Numbered(<<PairText, PairText, PairText>>)
    /\ rRetriever.chunks # <<>>
    /\ DOMAIN rRetriever.inverseDocumentFrequency = {<<"a", "b">>, <<"c", "d">>}

\* the chunks handed to the retriever whose content has at least n
\* characters, in their order
AtLeast(n) ==
    LET long(c) == Len(c.content) >= n
    IN  SelectSeq(rInput, long)

\* the statistics of the chunks cs: their number, the number of their
\* distinct tokens and their average length
StatsOf(cs) ==
    LET total[i \in 0..Len(cs)] ==
            IF i = 0 THEN 0 ELSE total[i - 1] + Len(cs[i].content)
    IN  [totalChunks |-> Len(cs),
         uniqueTerms |-> Cardinality(
             UNION {Range(tokenize(cs[i].content)) : i \in 1..Len(cs)}),
         averageChunkLength |->
             IF Len(cs) = 0 THEN Scale
             ELSE (Scale * total[Len(cs)]) \div Len(cs)]

\* the retained chunks, the results and the statistics are those of the
\* input chunks of at least n characters
RetainsAtLeast(n) ==
    /\ rRetriever.chunks = AtLeast(n)
    /\ \A k \in 1..Len(rResults) :
          \E i \in 1..Len(AtLeast(n)) : rResults[k].chunk = AtLeast(n)[i]
    /\ DocumentRetriever_getStats(rRetriever).totalChunks = StatsOf(AtLeast(n)).totalChunks
    /\ DocumentRetriever_getStats(rRetriever).uniqueTerms = StatsOf(AtLeast(n)).uniqueTerms
    /\ DocumentRetriever_getStats(rRetriever).averageChunkLength
          = StatsOf(AtLeast(n)).averageChunkLength

\* C23: after initialize(chunks) the retained chunks are exactly the input
\* chunks whose content has at least the configured minChunkLength
\* characters, in input order; a shorter chunk is in no search result and
\* in no statistic.
C23_RetainedChunks ==
    rReady => RetainsAtLeast(rConfig.minChunkLength)

\* the token sets of the retained chunks, in their order
TokenSets ==
    List([i \in 1..Len(rRetriever.chunks) |->
            Range(tokenize(rRetriever.chunks[i].content))])

\* the number of the token sets that hold the term
DocumentFrequency(tokens, term) ==
    Cardinality({i \in 1..Len(tokens) : term \in tokens[i]})

\* the BM25 part of what a term adds to the score of the i-th chunk: what
\* it adds, less the position bonus
Bm25Part(i, term) ==
    termScore(rRetriever, i, term)
        - calculatePositionBonus(toLowerCase(rRetriever.chunks[i].content),
                                 term)

\* the index over chunks of the token sets `tokens`: its terms are their
\* tokens, each with the logarithm of (chunks / chunks that hold it)
IdfMatches(tokens) ==
    /\ DOMAIN rRetriever.inverseDocumentFrequency
          = UNION {tokens[i] : i \in 1..Len(tokens)}
    /\ \A term \in DOMAIN rRetriever.inverseDocumentFrequency :
          /\ rRetriever.inverseDocumentFrequency[term]
                = LnNat[Len(tokens)]
                    - LnNat[DocumentFrequency(tokens, term)]
          /\ DocumentFrequency(tokens, term) = Len(tokens)
                => /\ rRetriever.inverseDocumentFrequency[term] = 0
                   /\ \A i \in 1..Len(tokens) : Bm25Part(i, term) = 0

TokenOccurrences(text, token) ==
    LET lower == toLowerCase(text)
        runs == RunsOutside(lower, {i \in 1..Len(lower) :
                                      lower[i] \in Separators})
    IN  Cardinality({n \in 1..Len(runs) : runs[n] = token})

\* C25: in the built index the count stored for a term in a chunk is the
\* number of times that token occurs in the chunk's content.
C25_CountIsOccurrences ==
    (rReady /\ ~rDone) =>
        \A i \in 1..Len(rRetriever.chunks) :
            \A term \in DOMAIN rRetriever.termFrequency[i] :
                rRetriever.termFrequency[i][term]
                    = TokenOccurrences(rRetriever.chunks[i].content, term)

\* the tokens of the query of this behaviour
QueryTokens == tokenize(trim(rQuery.text))

\* the tokens among `tokens` that occur somewhere in the i-th retained chunk
OccurringIn(i, tokens) ==
    LET occurs(token) ==
            includes(toLowerCase(rRetriever.chunks[i].content), token)
    IN  SelectSeq(tokens, occurs)

\* fewer than half of the tokens were found
FewerThanHalf(tokens, found) == 2 * Len(found) < Len(tokens)

\* the entry carries the score and, when it is not halved, the found tokens
\* that the soft penalty asks for
PenaltyApplied(entry, tokens, found, tokenScore) ==
    IF FewerThanHalf(tokens, found)
    THEN entry.score = tokenScore \div 2
    ELSE entry.score = tokenScore /\ entry.matchedTerms = found

\* the soft penalty holds of the loop body on the i-th retained chunk
PenaltyHoldsOf(i, tokens) ==
    PenaltyApplied(scored(rRetriever, i, trim(rQuery.text)), tokens,
                   OccurringIn(i, tokens),
                   scoreChunk(rRetriever, i, tokens))

\* the n-th result has the capped tenth of the score, and the matched
\* terms, that the soft penalty asks for
ResultPenalised(result, tokens, found, tokenScore) ==
    IF FewerThanHalf(tokens, found)
    THEN result.relevanceScore = Min(One, tokenScore \div 2)
    ELSE /\ result.relevanceScore = Min(One, tokenScore)
         /\ result.matchedTerms = found

\* C27: for a chunk that does not hold the whole query, when fewer than
\* half of the query's distinct tokens occur in the chunk its score is
\* exactly half of the score of the token formula; otherwise the score is
\* that of the formula and the found tokens are the matchedTerms.  So it
\* is in the loop of search for every retained chunk, and in what search
\* returns.
C27_SoftPenalty ==
    (SearchCalled /\ ~InvalidQuery(rQuery)) =>
        /\ \A i \in 1..Len(rRetriever.chunks) :
              ~HoldsQuery(i) => PenaltyHoldsOf(i, QueryTokens)
        /\ \A n \in 1..Len(rResults) :
              ~HoldsQuery(PlaceOf(n)) =>
                  ResultPenalised(rResults[n], QueryTokens,
                                  OccurringIn(PlaceOf(n), QueryTokens),
                                  scoreChunk(rRetriever, PlaceOf(n),
                                             QueryTokens))

\* a search has returned a chunk that holds fewer than half of the tokens
\* of the query, with its halved score
C27_Witness ==
    /\ SearchCalled
    /\ ~InvalidQuery(rQuery)
    /\ \E n \in 1..Len(rResults) :
          /\ ~HoldsQuery(PlaceOf(n))
          /\ FewerThanHalf(QueryTokens, OccurringIn(PlaceOf(n), QueryTokens))
          /\ rResults[n].relevanceScore > 0

\* the pieces that chunkDocument accumulates, in order
Pieces == splitIntoParagraphs(SemanticChunker(cConfig), cText)

\* the number of pieces consumed when currentChar is `offset`: each piece
\* adds its length and 2
PiecesBefore(pieces, offset) ==
    LET sum[n \in 0..Len(pieces)] ==
            IF n = 0 THEN 0 ELSE sum[n - 1] + Len(pieces[n]) + 2
    IN  CHOOSE n \in 0..Len(pieces) : sum[n] = offset

\* the number of the last marker of the piece, 0 if it has none
LastPageOf(piece) ==
    IF PageMarkers(piece) = {} THEN 0
    ELSE PageAt(piece, Greatest(PageMarkers(piece)))

\* the number of the most recent marker in the first n pieces, 1 if there
\* is none
MostRecentPage(pieces, n) ==
    LET marked == {m \in 1..n : LastPageOf(pieces[m]) # 0}
    IN  IF marked = {} THEN 1 ELSE LastPageOf(pieces[Greatest(marked)])

\* C26: the startPage of a chunk is the number of the most recent
\* [Page N] marker in the text up to the end of the chunk's own content (1
\* before any marker): it is inherited until another marker occurs, and a
\* marker of the piece that starts the next chunk does not reach the chunk
\* that is flushed.
C26_StartPageIsMostRecentMarker ==
    cDone =>
        \A k \in 1..Len(cChunks) :
            cChunks[k].startPage
                = MostRecentPage(Pieces,
                                 PiecesBefore(Pieces, cChunks[k].endChar))

(* ---------------------------------------------------------------------- *)
(* Claims about the manager's flag and its progress.                       *)
(* ---------------------------------------------------------------------- *)

\* C28: in every reachable state of the manager, under any interleaving
\* of its calls, the initialized flag is true if and only if a retriever
\* is present.
C28_FlagIffRetriever == initialized <=> (retriever # Null)

\* the manager is ready again while a reset that cleared it is still
\* awaiting its own load: another caller's initialize completed meanwhile
C28_Witness ==
    /\ initialized
    /\ retriever # Null
    /\ \E c \in Callers : op[c] = "reset" /\ pc[c] = "loading"

\* every load that is in flight from some point on resolves
LoaderStopsFailing == <>[][\A c \in Callers : ~loadRejects(c)]_vars

\* whenever the manager is not ready, a call that loads is made (or is
\* already in flight) at some later point
CallersKeepCalling ==
    [](~initialized => <>(\E c \in Callers : pc[c] = "loading"))

RawResults == DocumentRetriever_search(rRetriever, trim(rQuery.text))

\* the tool call of this behaviour had a valid non-empty query and its
\* pipeline succeeded: the manager is ready
ValidToolCall ==
    /\ ToolCalled
    /\ rQuery.type = "string"
    /\ Len(trim(rQuery.text)) > 0
    /\ rReady

\* C30: for a valid non-empty query on a manager whose pipeline
\* succeeds, handleSearchPdfs returns one item per result of searchRaw, in
\* the same order, each with the document name and the content of the
\* result's chunk, and total_matches is the number of results.
C30_OneItemPerResult ==
    ValidToolCall =>
        /\ Len(toolOut.results) = Len(RawResults)
        /\ toolOut.total_matches = Len(RawResults)
        /\ \A n \in 1..Len(RawResults) :
              /\ toolOut.results[n].source_document
                    = RawResults[n].chunk.documentName
              /\ toolOut.results[n].text_snippet
                    = RawResults[n].chunk.content
====
